---- MODULE Spec2Model ----
(***************************************************************************)
(* Model of clinvar_xml2vcf: the streaming extraction of VariationArchive  *)
(* entries (output_vcf, read_record), their decoding and their projection  *)
(* to VCF rows (output_record, extract_location, extract_conditions).      *)
(*                                                                         *)
(* Strings are sequences of one-character strings, so that to_uppercase,   *)
(* the two regular expressions, split/trim/replace and the joins are       *)
(* computed character by character as the code computes them.  An          *)
(* Option<T> is a sequence of length 0 (None) or 1 (Some).                 *)
(***************************************************************************)
EXTENDS Integers, Sequences, FiniteSets, TLC

(***************************************************************************)
(* Bounds of the model                                                     *)
(***************************************************************************)
MaxDocLen == 5
MaxFairDocLen == 4
MaxChrLen == 2
MaxAlleleLen == 2
MaxTextLen == 3
MaxLocs == 2
MaxCond == 2
MaxRcv == 2

(***************************************************************************)
(* Option and string helpers                                               *)
(***************************************************************************)
None == <<>>
Some(x) == <<x>>
IsSome(o) == Len(o) = 1
Unwrap(o) == o[1]

Range(s) == {s[i] : i \in 1..Len(s)}

SeqsUpTo(S, n) == UNION {[1..k -> S] : k \in 0..n}

LowerLetters == <<"a","b","c","d","e","f","g","h","i","j","k","l","m",
                  "n","o","p","q","r","s","t","u","v","w","x","y","z">>
UpperLetters == <<"A","B","C","D","E","F","G","H","I","J","K","L","M",
                  "N","O","P","Q","R","S","T","U","V","W","X","Y","Z">>

\* char::to_uppercase on the characters the model uses
UpperChar(c) ==
    IF \E i \in 1..Len(LowerLetters) : LowerLetters[i] = c
    THEN UpperLetters[CHOOSE i \in 1..Len(LowerLetters) : LowerLetters[i] = c]
    ELSE c

\* char::to_lowercase on the characters the model uses
LowerChar(c) ==
    IF \E i \in 1..Len(UpperLetters) : UpperLetters[i] = c
    THEN LowerLetters[CHOOSE i \in 1..Len(UpperLetters) : UpperLetters[i] = c]
    ELSE c

\* str::to_uppercase
to_uppercase(s) == [i \in 1..Len(s) |-> UpperChar(s[i])]

\* str::to_lowercase
to_lowercase(s) == [i \in 1..Len(s) |-> LowerChar(s[i])]

\* str::replace(" ", "_")
replace_space(s) == [i \in 1..Len(s) |-> IF s[i] = " " THEN "_" ELSE s[i]]

IsWhitespace(c) == c \in {" ", "\t", "\n", "\r"}

\* str::trim: leading and trailing whitespace removed
RECURSIVE trim_start(_)
trim_start(s) ==
    IF Len(s) > 0 /\ IsWhitespace(s[1]) THEN trim_start(Tail(s)) ELSE s

RECURSIVE trim_end(_)
trim_end(s) ==
    IF Len(s) > 0 /\ IsWhitespace(s[Len(s)])
    THEN trim_end(SubSeq(s, 1, Len(s) - 1))
    ELSE s

trim(s) == trim_end(trim_start(s))

\* str::split(&['/', ';'][..]): one fragment more than there are separators,
\* empty fragments kept
RECURSIVE split(_)
split(s) ==
    IF \E i \in 1..Len(s) : s[i] \in {"/", ";"}
    THEN LET i == CHOOSE k \in 1..Len(s) :
                     /\ s[k] \in {"/", ";"}
                     /\ \A j \in 1..(k - 1) : s[j] \notin {"/", ";"}
         IN  <<SubSeq(s, 1, i - 1)>> \o split(SubSeq(s, i + 1, Len(s)))
    ELSE <<s>>

\* [String]::join(sep)
RECURSIVE join(_, _)
join(parts, sep) ==
    IF Len(parts) = 0 THEN <<>>
    ELSE IF Len(parts) = 1 THEN parts[1]
    ELSE parts[1] \o sep \o join(Tail(parts), sep)

Digits == <<"0","1","2","3","4","5","6","7","8","9">>

\* Display of a non-negative integer
RECURSIVE format_nat(_)
format_nat(n) ==
    IF n < 10 THEN <<Digits[n + 1]>>
    ELSE format_nat(n \div 10) \o <<Digits[(n % 10) + 1]>>

\* Display of an i32 / u64 ("{}")
format_int(n) == IF n < 0 THEN <<"-">> \o format_nat(0 - n) ELSE format_nat(n)

(***************************************************************************)
(* lib.rs: validation of a location                                        *)
(***************************************************************************)
\* \A([1-9]|1[0-9]|2[0-2]|X|Y|MT)\z
REGEX_CHROMOSOME(c) ==
    \/ Len(c) = 1 /\ c[1] \in {"1","2","3","4","5","6","7","8","9"}
    \/ Len(c) = 2 /\ c[1] = "1" /\ c[2] \in Range(Digits)
    \/ Len(c) = 2 /\ c[1] = "2" /\ c[2] \in {"0","1","2"}
    \/ Len(c) = 1 /\ c[1] = "X"
    \/ Len(c) = 1 /\ c[1] = "Y"
    \/ Len(c) = 2 /\ c[1] = "M" /\ c[2] = "T"

\* \A[ACGT]+\z
REGEX_ALLELE(s) ==
    /\ Len(s) >= 1
    /\ \A i \in 1..Len(s) : s[i] \in {"A","C","G","T"}

\* A search that skips the matching locations without coordinates
find_assembly_with_coordinates(locs, assembly) ==
    LET ok(x) == /\ x.assembly = assembly
                 /\ IsSome(x.pos) /\ IsSome(x.reference) /\ IsSome(x.alternate)
        kept == SelectSeq(locs, ok)
    IN  IF Len(kept) > 0 THEN Some(kept[1]) ELSE None

\* Iterator::find(|x| x.assembly == assembly) over sequence_location
find_assembly(locs, assembly) ==
    IF \E i \in 1..Len(locs) : locs[i].assembly = assembly
    THEN Some(locs[CHOOSE i \in 1..Len(locs) :
                      /\ locs[i].assembly = assembly
                      /\ \A j \in 1..(i - 1) : locs[j].assembly # assembly])
    ELSE None

\* A check that compares reference and alternate as given, not upper-cased
check_location_compares_raw(x) ==
    IF IsSome(x.pos) /\ IsSome(x.reference) /\ IsSome(x.alternate)
    THEN LET reference == to_uppercase(Unwrap(x.reference))
             alternate == to_uppercase(Unwrap(x.alternate))
         IN  IF ~REGEX_CHROMOSOME(x.chr) THEN None
             ELSE IF ~REGEX_ALLELE(reference) THEN None
             ELSE IF ~REGEX_ALLELE(alternate) THEN None
             ELSE IF Unwrap(x.reference) = Unwrap(x.alternate) THEN None
             ELSE Some(<<x.chr, Unwrap(x.pos), Unwrap(x.reference), Unwrap(x.alternate)>>)
    ELSE None

\* The closure of the second and_then: Some((c, p, r, a)) or None
check_location(x) ==
    IF IsSome(x.pos) /\ IsSome(x.reference) /\ IsSome(x.alternate)
    THEN LET reference == to_uppercase(Unwrap(x.reference))
             alternate == to_uppercase(Unwrap(x.alternate))
         IN  IF ~REGEX_CHROMOSOME(x.chr) THEN None
             ELSE IF ~REGEX_ALLELE(reference) THEN None
             ELSE IF ~REGEX_ALLELE(alternate) THEN None
             ELSE IF reference = alternate THEN None
             ELSE Some(<<x.chr, Unwrap(x.pos), Unwrap(x.reference), Unwrap(x.alternate)>>)
    ELSE None

\* extract_location(allele, assembly): Option<(CHROM, POS, REF, ALT)>
extract_location(allele, assembly) ==
    IF ~IsSome(allele.location) THEN None
    ELSE LET found == find_assembly(Unwrap(allele.location), assembly)
         IN  IF IsSome(found) THEN check_location(Unwrap(found)) ELSE None

\* Whether extract_location prints a warning (one of the four warn! calls)
location_warns(allele, assembly) ==
    /\ IsSome(allele.location)
    /\ IsSome(find_assembly(Unwrap(allele.location), assembly))
    /\ LET x == Unwrap(find_assembly(Unwrap(allele.location), assembly))
       IN  /\ IsSome(x.pos) /\ IsSome(x.reference) /\ IsSome(x.alternate)
           /\ check_location(x) = None

(***************************************************************************)
(* clinvar_xml2vcf.rs: condition synthesis                                 *)
(***************************************************************************)
DB_MEDGEN == <<"M","e","d","G","e","n">>

\* The inner filter_map: ids of the conditions whose db is MedGen
medgen_ids(rcv) ==
    LET conds == rcv.classified_condition
        keep(x) == x.db = Some(DB_MEDGEN) /\ IsSome(x.id)
        kept == SelectSeq(conds, keep)
    IN  [i \in 1..Len(kept) |-> Unwrap(kept[i].id)]

\* description.text.split(..).map(trim, replace, to_lowercase).join("/")
interpretations(text) ==
    LET frags == split(text)
    IN  join([i \in 1..Len(frags) |->
                 to_lowercase(replace_space(trim(frags[i])))], <<"/">>)

\* A closure that falls back to the somatic classification
rcv_segment_with_fallback(rcv) ==
    LET medgen == [i \in 1..Len(SelectSeq(rcv.classified_condition,
                                 LAMBDA c : c.db = Some(DB_MEDGEN) /\ IsSome(c.id))) |->
                      Unwrap(SelectSeq(rcv.classified_condition,
                                 LAMBDA c : c.db = Some(DB_MEDGEN) /\ IsSome(c.id))[i].id)]
        cls == IF IsSome(rcv.germline_classification)
               THEN rcv.germline_classification
               ELSE rcv.somatic_clinical_impact
    IN  IF Len(medgen) # 0 /\ IsSome(cls)
        THEN Some(DB_MEDGEN \o <<":">> \o join(medgen, <<"/">>) \o <<":">>
                  \o join([i \in 1..Len(split(Unwrap(cls).text)) |->
                              to_lowercase(replace_space(trim(split(Unwrap(cls).text)[i])))],
                          <<"/">>)
                  \o <<":">> \o format_int(Unwrap(cls).submission_count))
        ELSE None

\* The outer filter_map closure: the accession's segment, or None
rcv_segment(rcv) ==
    LET medgen == medgen_ids(rcv)
    IN  IF Len(medgen) # 0
        THEN IF IsSome(rcv.germline_classification)
             THEN LET x == Unwrap(rcv.germline_classification)
                  IN  Some(DB_MEDGEN \o <<":">> \o join(medgen, <<"/">>) \o <<":">>
                           \o interpretations(x.text) \o <<":">>
                           \o format_int(x.submission_count))
             ELSE None
        ELSE None

\* A join that keeps an empty segment for an accession without one
extract_conditions_keeps_empty(record) ==
    LET rcvs == record.rcv_list
        seg(r) ==
            IF \E i \in 1..Len(r.classified_condition) :
                   /\ r.classified_condition[i].db = Some(DB_MEDGEN)
                   /\ IsSome(r.classified_condition[i].id)
            THEN IF IsSome(r.germline_classification)
                 THEN <<DB_MEDGEN \o <<":">>
                          \o join([i \in 1..Len(SelectSeq(r.classified_condition,
                                        LAMBDA c : c.db = Some(DB_MEDGEN) /\ IsSome(c.id))) |->
                                     Unwrap(SelectSeq(r.classified_condition,
                                        LAMBDA c : c.db = Some(DB_MEDGEN) /\ IsSome(c.id))[i].id)],
                                  <<"/">>)
                          \o <<":">>
                          \o join([i \in 1..Len(split(Unwrap(r.germline_classification).text)) |->
                                     to_lowercase(replace_space(trim(
                                        split(Unwrap(r.germline_classification).text)[i])))],
                                  <<"/">>)
                          \o <<":">>
                          \o format_int(Unwrap(r.germline_classification).submission_count)>>
                 ELSE <<<<>>>>
            ELSE <<<<>>>>
        RECURSIVE all(_)
        all(i) == IF i > Len(rcvs) THEN <<>> ELSE seg(rcvs[i]) \o all(i + 1)
    IN  join(all(1), <<"|">>)

\* extract_conditions(record): the segments joined by "|"
extract_conditions(record) ==
    LET rcvs == record.rcv_list
        segs == [i \in 1..Len(rcvs) |-> rcv_segment(rcvs[i])]
        kept == SelectSeq(segs, IsSome)
    IN  join([i \in 1..Len(kept) |-> Unwrap(kept[i])], <<"|">>)

(***************************************************************************)
(* clinvar_xml2vcf.rs: output_record                                       *)
(***************************************************************************)
\* const VCF_HEADER, written as one block
VCF_HEADER == [kind |-> "header"]

\* A row that carries the alleles as given
format_row_as_given(loc, allele, conditions) ==
    [kind |-> "row",
     CHROM |-> loc[1],
     POS |-> loc[2],
     ID |-> allele.variation_id,
     REF |-> loc[3],
     ALT |-> loc[4],
     QUAL |-> ".",
     FILTER |-> ".",
     ALLELEID |-> allele.allele_id,
     CONDITIONS |-> conditions]

\* The line "{}\t{}\t{}\t{}\t{}\t.\t.\tALLELEID={};CONDITIONS={}" as its fields
format_row(loc, allele, conditions) ==
    [kind |-> "row",
     CHROM |-> loc[1],
     POS |-> loc[2],
     ID |-> allele.variation_id,
     REF |-> to_uppercase(loc[3]),
     ALT |-> to_uppercase(loc[4]),
     QUAL |-> ".",
     FILTER |-> ".",
     ALLELEID |-> allele.allele_id,
     CONDITIONS |-> conditions]

\* An output_record that writes the row whatever the conditions string is
output_record_without_conditions_check(v, asm) ==
    IF IsSome(v.classified_record)
    THEN LET record == Unwrap(v.classified_record)
         IN  IF IsSome(record.simple_allele)
             THEN LET allele == Unwrap(record.simple_allele)
                      loc == extract_location(allele, asm)
                  IN  IF IsSome(loc)
                      THEN <<format_row(Unwrap(loc), allele, extract_conditions(record))>>
                      ELSE <<>>
             ELSE <<>>
    ELSE <<>>

\* The lines output_record writes for a decoded entry: none or one
output_record(v, asm) ==
    IF IsSome(v.classified_record)
    THEN LET record == Unwrap(v.classified_record)
         IN  IF IsSome(record.simple_allele)
             THEN LET allele == Unwrap(record.simple_allele)
                      loc == extract_location(allele, asm)
                  IN  IF IsSome(loc)
                      THEN LET conditions == extract_conditions(record)
                           IN  IF Len(conditions) = 0
                               THEN <<>>
                               ELSE <<format_row(Unwrap(loc), allele, conditions)>>
                      ELSE <<>>
             ELSE <<>>
    ELSE <<>>

\* The diagnostics output_record and extract_location print for the entry
output_record_log(v, asm) ==
    IF IsSome(v.classified_record)
    THEN LET record == Unwrap(v.classified_record)
         IN  IF IsSome(record.simple_allele)
             THEN LET allele == Unwrap(record.simple_allele)
                  IN  IF IsSome(extract_location(allele, asm))
                      THEN IF Len(extract_conditions(record)) = 0
                           THEN <<"WARN: No ClassifiedCondition associated with MedGen">>
                           ELSE <<>>
                      ELSE IF location_warns(allele, asm)
                           THEN <<"WARN: Skip">>
                           ELSE <<>>
             ELSE <<"WARN: SimpleAllele not found">>
    ELSE <<"WARN: ClassifiedRecord not found">>

\* A writer that puts new lines in front of the text
write_lines_in_front(text, lines) == lines \o text

\* writeln!(writer, ..): the lines are appended to the text written so far
write_lines(text, lines) == text \o lines

(***************************************************************************)
(* Decoded entries (lib.rs, the Deserialize structs)                       *)
(***************************************************************************)
SequenceLocation(asm, chr, pos, reference, alternate) ==
    [assembly |-> asm, chr |-> chr, pos |-> pos,
     reference |-> reference, alternate |-> alternate]

SimpleAllele(allele_id, variation_id, location) ==
    [allele_id |-> allele_id, variation_id |-> variation_id, location |-> location]

ClassifiedCondition(db, id) == [db |-> db, id |-> id]

Description(text, submission_count) ==
    [text |-> text, submission_count |-> submission_count]

RCVAccession(conds, germline, somatic, oncogenicity) ==
    [classified_condition |-> conds,
     germline_classification |-> germline,
     somatic_clinical_impact |-> somatic,
     oncogenicity_classification |-> oncogenicity]

ClassifiedRecord(simple_allele, rcv_list) ==
    [simple_allele |-> simple_allele, rcv_list |-> rcv_list]

IncludedRecord(simple_allele) == [simple_allele |-> simple_allele]

VariationArchive(variation_id, classified_record, included_record) ==
    [variation_id |-> variation_id,
     classified_record |-> classified_record,
     included_record |-> included_record]

(***************************************************************************)
(* The event stream of the tokenizer (quick_xml::Reader)                   *)
(***************************************************************************)
TAG == "VariationArchive"

\* The content of an entry, carried by its start tag in the model: two
\* entries that yield a row, one that is skipped by validation, and one
\* that handle_variation_archive cannot decode
Payloads == {"A", "B", "V", "D"}

StartEvent(name, payload) == [kind |-> "Start", name |-> name, payload |-> payload]
EndEvent(name) == [kind |-> "End", name |-> name, payload |-> "-"]
ErrEvent == [kind |-> "Err", name |-> "", payload |-> "-"]
EofEvent == [kind |-> "Eof", name |-> "", payload |-> "-"]

\* Text, comment and empty-element events take the same arms as the start
\* and end events of another name (_ => {}) and are not told apart from them
Events ==
    {StartEvent(TAG, p) : p \in Payloads}
        \cup {EndEvent(TAG), StartEvent("Other", "-"), EndEvent("Other"), ErrEvent}

\* The stacks of open tags the tokenizer can hold after the first n events.
\* It checks end names, so an End event is produced only for the innermost
\* open tag; the markup reported as an error may have been an end tag.
RECURSIVE OpenTags(_, _)
OpenTags(d, n) ==
    IF n = 0 THEN {<<>>}
    ELSE LET prev == OpenTags(d, n - 1)
             e == d[n]
             pop(s) == SubSeq(s, 1, Len(s) - 1)
         IN  CASE e.kind = "Start" -> {Append(s, e.name) : s \in prev}
               [] e.kind = "End" ->
                    {pop(s) : s \in {t \in prev : Len(t) > 0 /\ t[Len(t)] = e.name}}
               [] OTHER -> prev \cup {pop(s) : s \in {t \in prev : Len(t) > 0}}

\* The event sequences the tokenizer can produce before end-of-stream
Documents == {d \in SeqsUpTo(Events, MaxDocLen) : OpenTags(d, Len(d)) # {}}

(***************************************************************************)
(* Sample entries                                                          *)
(***************************************************************************)
MedGenId(id) == ClassifiedCondition(Some(DB_MEDGEN), Some(id))

Germline(text, count) == Some(Description(text, count))

GoodRcv ==
    RCVAccession(<<MedGenId(<<"M","1">>)>>, Germline(<<"P">>, 3), None, None)

GoodLocation ==
    SequenceLocation("GRCh38", <<"1">>, Some(100), Some(<<"A">>), Some(<<"G">>))

\* An entry with a classified SimpleAllele, the given locations and accessions
Entry(allele_id, variation_id, location, rcv_list) ==
    VariationArchive(12345,
        Some(ClassifiedRecord(Some(SimpleAllele(allele_id, variation_id, location)),
                              rcv_list)),
        None)

\* What the entries of the stream decode to
Catalog(p) ==
    CASE p = "A" ->
           Entry(67, 12345, Some(<<GoodLocation>>),
                 <<RCVAccession(<<MedGenId(<<"M","1">>)>>,
                                Germline(<<"P",";"," ","L"," ","p">>, 3), None, None)>>)
      [] p = "B" ->
           Entry(8, 999,
                 Some(<<SequenceLocation("GRCh38", <<"M","T">>, Some(7),
                                         Some(<<"a","c">>), Some(<<"t">>))>>),
                 <<GoodRcv>>)
      [] OTHER ->
           Entry(5, 555,
                 Some(<<SequenceLocation("GRCh38", <<"X">>, Some(9),
                                         Some(<<"a">>), Some(<<"A">>))>>),
                 <<GoodRcv>>)

\* handle_variation_archive: Ok(entry) or Err, decided by the buffer's content
handle_variation_archive(bytes) ==
    IF bytes[1].payload = "D" THEN None ELSE Some(Catalog(bytes[1].payload))

(***************************************************************************)
(* State                                                                   *)
(***************************************************************************)
VARIABLES
    doc,           \* the events the input holds, in order
    ignore_error,  \* Options.ignore_error
    assembly,      \* Options.assembly
    pos,           \* the tokenizer's position: index of the next event
    exited,        \* the tokenizer has reached its final state (Eof from now on)
    pc,            \* where output_vcf is
    tag_name,      \* read_record: start_tag.name()
    output_buf,    \* read_record: the events written to the entry buffer
    depth,         \* read_record: the nesting counter
    variant,       \* the entry decoded last, handed to output_record
    out,           \* the text written to the writer, line by line
    log,           \* the diagnostics printed to stderr
    row_origin     \* for each row of out, the position of its entry's start tag

vars == <<doc, ignore_error, assembly, pos, exited, pc, tag_name, output_buf,
          depth, variant, out, log, row_origin>>

Assemblies == {"GRCh37", "GRCh38"}

\* reader.read_event_into(buf): the event the next read returns
NextEvent == IF exited \/ pos > Len(doc) THEN EofEvent ELSE doc[pos]

\* output_vcf up to the loop has not run yet
Init ==
    /\ doc \in Documents
    /\ ignore_error \in BOOLEAN
    /\ assembly = "GRCh38"
    /\ pos = 1
    /\ exited = FALSE
    /\ pc = "start"
    /\ tag_name = ""
    /\ output_buf = <<>>
    /\ depth = 0
    /\ variant = None
    /\ out = <<>>
    /\ log = <<>>
    /\ row_origin = <<>>

\* An error handler that always continues
OnErrorAlwaysContinue ==
    /\ log' = Append(log, "ERROR")
    /\ pc' = "loop"
    /\ tag_name' = ""
    /\ output_buf' = <<>>
    /\ depth' = 0

\* error!(..); if ignore_error { continue } Err(..)?
OnError ==
    /\ log' = Append(log, "ERROR")
    /\ pc' = IF ignore_error THEN "loop" ELSE "aborted"
    /\ tag_name' = ""
    /\ output_buf' = <<>>
    /\ depth' = 0

\* A tokenizer that returns the same Err again on the next read
TokenizerErrorStuck ==
    /\ pos' = pos
    /\ exited' = exited

\* A read that returns Err: the tokenizer either resumes behind the bad
\* markup or stays in its final state, depending on the library build
TokenizerError ==
    /\ pos' = pos + 1
    /\ exited' \in BOOLEAN

\* writeln!(writer, "{}", VCF_HEADER)
WriteHeader ==
    /\ pc = "start"
    /\ out' = write_lines(out, <<VCF_HEADER>>)
    /\ pc' = "loop"
    /\ UNCHANGED <<doc, ignore_error, assembly, pos, exited, tag_name, output_buf,
                   depth, variant, log, row_origin>>

\* Event::Eof => break; writer.flush()
ReadEof ==
    /\ pc = "loop"
    /\ NextEvent.kind = "Eof"
    /\ exited' = TRUE
    /\ pc' = "done"
    /\ UNCHANGED <<doc, ignore_error, assembly, pos, tag_name, output_buf, depth,
                   variant, out, log, row_origin>>

\* Err(e) of the read in the main loop
ReadError ==
    /\ pc = "loop"
    /\ NextEvent.kind = "Err"
    /\ TokenizerError
    /\ OnError
    /\ UNCHANGED <<doc, ignore_error, assembly, variant, out, row_origin>>

\* Event::Start(start_tag) named VariationArchive: read_record is entered
ReadStart ==
    /\ pc = "loop"
    /\ NextEvent.kind = "Start"
    /\ NextEvent.name = TAG
    /\ pos' = pos + 1
    /\ tag_name' = NextEvent.name
    /\ output_buf' = <<NextEvent>>
    /\ depth' = 0
    /\ pc' = "record"
    /\ UNCHANGED <<doc, ignore_error, assembly, exited, variant, out, log, row_origin>>

\* Any other event of the main loop: _ => {}
ReadOther ==
    /\ pc = "loop"
    /\ \/ NextEvent.kind = "End"
       \/ NextEvent.kind = "Start" /\ NextEvent.name # TAG
    /\ pos' = pos + 1
    /\ UNCHANGED <<doc, ignore_error, assembly, exited, pc, tag_name, output_buf,
                   depth, variant, out, log, row_origin>>

\* read_record: Event::Start(e) if e.name() == tag_name => depth += 1
RecordStart ==
    /\ pc = "record"
    /\ NextEvent.kind = "Start"
    /\ NextEvent.name = tag_name
    /\ pos' = pos + 1
    /\ output_buf' = Append(output_buf, NextEvent)
    /\ depth' = depth + 1
    /\ UNCHANGED <<doc, ignore_error, assembly, exited, pc, tag_name, variant, out,
                   log, row_origin>>

\* A read_record that returns at the first end event of its tag name
returns_at_first_end(d) == TRUE

\* Whether read_record returns at an end event of its own tag name
returns_at_end(d) == d = 0

\* read_record: Event::End(e) if e.name() == tag_name
RecordEnd ==
    /\ pc = "record"
    /\ NextEvent.kind = "End"
    /\ NextEvent.name = tag_name
    /\ pos' = pos + 1
    /\ output_buf' = Append(output_buf, NextEvent)
    /\ IF returns_at_end(depth)
       THEN pc' = "decode" /\ depth' = depth
       ELSE pc' = pc /\ depth' = depth - 1
    /\ UNCHANGED <<doc, ignore_error, assembly, exited, tag_name, variant, out, log,
                   row_origin>>

\* read_record: any other event is written to the buffer: _ => {}
RecordOther ==
    /\ pc = "record"
    /\ NextEvent.kind \in {"Start", "End"}
    /\ NextEvent.name # tag_name
    /\ pos' = pos + 1
    /\ output_buf' = Append(output_buf, NextEvent)
    /\ UNCHANGED <<doc, ignore_error, assembly, exited, pc, tag_name, depth, variant,
                   out, log, row_origin>>

\* A read_record that returns the buffer read so far at end-of-stream
RecordEofReturnsBuffer ==
    /\ pc = "record"
    /\ NextEvent.kind = "Eof"
    /\ exited' = TRUE
    /\ pc' = "decode"
    /\ UNCHANGED <<doc, ignore_error, assembly, pos, tag_name, output_buf, depth,
                   variant, out, log, row_origin>>

\* read_record: Event::Eof => Err(UnexpectedEof), handled by output_vcf
RecordEof ==
    /\ pc = "record"
    /\ NextEvent.kind = "Eof"
    /\ exited' = TRUE
    /\ OnError
    /\ UNCHANGED <<doc, ignore_error, assembly, pos, variant, out, row_origin>>

\* read_record: reader.read_event_into(buf)? fails, handled by output_vcf
RecordError ==
    /\ pc = "record"
    /\ NextEvent.kind = "Err"
    /\ TokenizerError
    /\ OnError
    /\ UNCHANGED <<doc, ignore_error, assembly, variant, out, row_origin>>

\* handle_variation_archive(&bytes) is Ok(variant)
DecodeOk ==
    /\ pc = "decode"
    /\ IsSome(handle_variation_archive(output_buf))
    /\ variant' = handle_variation_archive(output_buf)
    /\ pc' = "output"
    /\ UNCHANGED <<doc, ignore_error, assembly, pos, exited, tag_name, output_buf,
                   depth, out, log, row_origin>>

\* handle_variation_archive(&bytes) is Err(e)
DecodeError ==
    /\ pc = "decode"
    /\ ~IsSome(handle_variation_archive(output_buf))
    /\ OnError
    /\ UNCHANGED <<doc, ignore_error, assembly, pos, exited, variant, out, row_origin>>

\* output_record(&mut writer, &variant, assembly)?; buf.clear()
OutputRecord ==
    /\ pc = "output"
    /\ LET lines == output_record(Unwrap(variant), assembly)
       IN  /\ out' = write_lines(out, lines)
           /\ row_origin' = IF Len(lines) = 0 THEN row_origin
                            ELSE Append(row_origin, pos - Len(output_buf))
    /\ log' = log \o output_record_log(Unwrap(variant), assembly)
    /\ pc' = "loop"
    /\ tag_name' = ""
    /\ output_buf' = <<>>
    /\ depth' = 0
    /\ UNCHANGED <<doc, ignore_error, assembly, pos, exited, variant>>

Next ==
    \/ WriteHeader
    \/ ReadEof
    \/ ReadError
    \/ ReadStart
    \/ ReadOther
    \/ RecordStart
    \/ RecordEnd
    \/ RecordOther
    \/ RecordEof
    \/ RecordError
    \/ DecodeOk
    \/ DecodeError
    \/ OutputRecord

Spec == Init /\ [][Next]_vars

\* The inputs of the runs followed to their end
FairDocuments ==
    {d \in SeqsUpTo(Events, MaxFairDocLen) : OpenTags(d, Len(d)) # {}}

InitFair ==
    /\ doc \in FairDocuments
    /\ ignore_error \in BOOLEAN
    /\ assembly = "GRCh38"
    /\ pos = 1
    /\ exited = FALSE
    /\ pc = "start"
    /\ tag_name = ""
    /\ output_buf = <<>>
    /\ depth = 0
    /\ variant = None
    /\ out = <<>>
    /\ log = <<>>
    /\ row_origin = <<>>

\* The steps of output_vcf other than the call of output_record
Reading ==
    \/ WriteHeader
    \/ ReadEof
    \/ ReadError
    \/ ReadStart
    \/ ReadOther
    \/ RecordStart
    \/ RecordEnd
    \/ RecordOther
    \/ RecordEof
    \/ RecordError
    \/ DecodeOk
    \/ DecodeError

\* WF_vars(OutputRecord) with its enabling condition written out: the call
\* of output_record has no guard but its place in the loop and always leaves
\* that place, so ENABLED <<OutputRecord>>_vars is pc = "output"
OutputRecordFair == []<>(pc # "output") \/ []<><<OutputRecord>>_vars

\* output_vcf runs its loop to the end: a sequential program that can take a
\* step takes it
FairSpec == InitFair /\ [][Next]_vars /\ WF_vars(Reading) /\ OutputRecordFair

(***************************************************************************)
(* Projection of one decoded entry: the inputs of output_record            *)
(***************************************************************************)
ChrAlphabet == {"0", "1", "2", "3", "9", "X", "M", "T"}

ChrLabels ==
    SeqsUpTo(ChrAlphabet, MaxChrLen) \cup {<<"Y">>, <<"c","h","r","1">>, <<"x">>}

AlleleAlphabet == {"A", "a", "G", "N", "-"}

OptAlleles ==
    {None, Some(<<"A","C","G","N">>), Some(<<"a","c","g","t">>)}
        \cup {Some(s) : s \in SeqsUpTo(AlleleAlphabet, MaxAlleleLen)}

\* One location of the target assembly; the chromosome label varies
ChrEntries ==
    \E c \in ChrLabels,
       ra \in {<<<<"A">>, <<"G">>>>, <<<<"a">>, <<"g","t">>>>,
               <<<<"A">>, <<"a">>>>, <<<<"N">>, <<"G">>>>} :
        variant = Some(Entry(67, 12345,
                     Some(<<SequenceLocation("GRCh38", c, Some(100),
                                             Some(ra[1]), Some(ra[2]))>>),
                     <<GoodRcv>>))

\* One location of the target assembly; the alleles vary
AlleleEntries ==
    \E c \in {<<"1">>, <<"2","3">>}, r \in OptAlleles, a \in OptAlleles :
        variant = Some(Entry(67, 12345,
                     Some(<<SequenceLocation("GRCh38", c, Some(100), r, a)>>),
                     <<GoodRcv>>))

LocationSamples ==
    {SequenceLocation(asm, l[1], l[2], l[3], l[4]) :
        asm \in Assemblies,
        l \in {<<<<"1">>, Some(100), Some(<<"A">>), Some(<<"G">>)>>,
               <<<<"X">>, Some(7), Some(<<"c">>), Some(<<"T","T">>)>>,
               <<<<"1">>, None, Some(<<"A">>), Some(<<"G">>)>>,
               <<<<"1">>, Some(100), None, Some(<<"G">>)>>,
               <<<<"1">>, Some(100), Some(<<"A">>), None>>,
               <<<<"2","3">>, Some(100), Some(<<"A">>), Some(<<"G">>)>>,
               <<<<"1">>, Some(100), Some(<<"a">>), Some(<<"A">>)>>}}

\* Several locations, of either assembly, complete or not, valid or not
LocationEntries ==
    \E ids \in {<<67, 12345>>, <<8, 999>>} :
        \/ variant = Some(Entry(ids[1], ids[2], None, <<GoodRcv>>))
        \/ \E l \in SeqsUpTo(LocationSamples, MaxLocs) :
              variant = Some(Entry(ids[1], ids[2], Some(l), <<GoodRcv>>))

\* Entries without a classified form or without a SimpleAllele
ShapeEntries ==
    LET allele == SimpleAllele(67, 12345, Some(<<GoodLocation>>))
    IN  \E c \in {None,
                  Some(ClassifiedRecord(None, <<GoodRcv>>)),
                  Some(ClassifiedRecord(Some(allele), <<GoodRcv>>)),
                  Some(ClassifiedRecord(Some(allele), <<>>))},
           i \in {None, Some(IncludedRecord(None)), Some(IncludedRecord(Some(allele)))} :
            variant = Some(VariationArchive(12345, c, i))

ConditionSamples ==
    {MedGenId(<<"M","1">>), MedGenId(<<"M","2">>),
     ClassifiedCondition(Some(DB_MEDGEN), None),
     ClassifiedCondition(Some(<<"O","M","I","M">>), Some(<<"O","1">>)),
     ClassifiedCondition(None, Some(<<"M","1">>))}

OtherDescription == Some(Description(<<"T","i","e","r">>, 9))

\* One accession; its condition references and classifications vary
ConditionEntries ==
    \E conds \in SeqsUpTo(ConditionSamples, MaxCond),
       g \in {None, Germline(<<"P">>, 3)},
       so \in {<<None, None>>, <<OtherDescription, None>>, <<None, OtherDescription>>} :
        variant = Some(Entry(67, 12345, Some(<<GoodLocation>>),
                             <<RCVAccession(conds, g, so[1], so[2])>>))

RcvSamples ==
    {RCVAccession(<<MedGenId(<<"M","1">>)>>, Germline(<<"P">>, 3), None, None),
     RCVAccession(<<MedGenId(<<"M","2">>), MedGenId(<<"M","1">>)>>,
                  Germline(<<"b","/","P">>, 12), None, None),
     RCVAccession(<<MedGenId(<<"M","2">>)>>, Germline(<<"P">>, 3),
                  OtherDescription, None),
     RCVAccession(<<MedGenId(<<"M","1">>)>>, None, OtherDescription, None),
     RCVAccession(<<MedGenId(<<"M","1">>)>>, None, None, OtherDescription),
     RCVAccession(<<ClassifiedCondition(Some(<<"O","M","I","M">>), Some(<<"O","1">>))>>,
                  Germline(<<"P">>, 3), None, None),
     RCVAccession(<<>>, Germline(<<"P">>, 3), None, None)}

\* Several accessions, contributing or not
RcvEntries ==
    \E rcvs \in SeqsUpTo(RcvSamples, MaxRcv) :
        variant = Some(Entry(67, 12345, Some(<<GoodLocation>>), rcvs))

TextAlphabet == {"P", "b", " ", "/", ";"}

\* One accession; the germline description varies
TextEntries ==
    \E text \in SeqsUpTo(TextAlphabet, MaxTextLen), count \in {0, 3, 12, -1} :
        variant = Some(Entry(67, 12345, Some(<<GoodLocation>>),
                     <<RCVAccession(<<MedGenId(<<"M","1">>)>>, Germline(text, count),
                                    None, None)>>))

\* The entries of the stream
CatalogEntries == \E p \in Payloads \ {"D"} : variant = Some(Catalog(p))

\* The decoded entries output_record is applied to
ProjectionInputs ==
    \/ ChrEntries
    \/ AlleleEntries
    \/ LocationEntries
    \/ ShapeEntries
    \/ ConditionEntries
    \/ RcvEntries
    \/ TextEntries
    \/ CatalogEntries

\* output_record is about to run on a decoded entry; the header is written
InitProjection ==
    /\ ProjectionInputs
    /\ assembly \in Assemblies
    /\ doc = <<StartEvent(TAG, "-"), EndEvent(TAG)>>
    /\ ignore_error = FALSE
    /\ pos = 3
    /\ exited = FALSE
    /\ pc = "output"
    /\ tag_name = TAG
    /\ output_buf = doc
    /\ depth = 0
    /\ out = <<VCF_HEADER>>
    /\ log = <<>>
    /\ row_origin = <<>>

NextProjection == OutputRecord

SpecProjection == InitProjection /\ [][NextProjection]_vars

(***************************************************************************)
(* Properties of the stream loop                                           *)
(***************************************************************************)
IsStart(e, name) == e.kind = "Start" /\ e.name = name
IsEnd(e, name) == e.kind = "End" /\ e.name = name

\* The number of events of b at the indices lo..hi that satisfy Is(_, TAG)
CountIn(b, lo, hi, Is(_, _)) == Cardinality({i \in lo..hi : Is(b[i], TAG)})

\* b[j] is an end of the entry's tag name at which as many starts as ends of
\* that name lie between the outer start tag b[1] and b[j]
MatchingEnd(b, j) ==
    /\ IsEnd(b[j], TAG)
    /\ CountIn(b, 2, j - 1, IsStart) = CountIn(b, 2, j - 1, IsEnd)

\* C1: read_record returns exactly at the first end event of its tag name
\* that has as many starts as ends of that name before it, never at the end
\* of a nested element; the buffer is the outer start tag and every event
\* read up to and including that end, and is balanced.
C1_ReadRecordBoundary ==
    /\ pc \in {"record", "decode"} =>
          /\ Len(output_buf) >= 1
          /\ IsStart(output_buf[1], TAG)
          /\ output_buf = SubSeq(doc, pos - Len(output_buf), pos - 1)
    /\ pc = "record" =>
          \A j \in 2..Len(output_buf) : ~MatchingEnd(output_buf, j)
    /\ pc = "decode" =>
          /\ MatchingEnd(output_buf, Len(output_buf))
          /\ \A j \in 2..(Len(output_buf) - 1) : ~MatchingEnd(output_buf, j)
          /\ CountIn(output_buf, 1, Len(output_buf), IsStart)
                = CountIn(output_buf, 1, Len(output_buf), IsEnd)

\* read_record has returned an entry that holds a nested element of its name
C1_Witness ==
    /\ pc = "decode"
    /\ \E j \in 2..(Len(output_buf) - 1) : IsEnd(output_buf[j], TAG)

HasError == "ERROR" \in Range(log)

C8_State ==
    /\ (~ignore_error /\ HasError) => (pc = "aborted" /\ log[Len(log)] = "ERROR")
    /\ ignore_error => pc # "aborted"
    /\ pc = "aborted" => (Len(log) > 0 /\ log[Len(log)] = "ERROR")

\* C8: in default mode the first read, extraction or decode error ends
\* output_vcf with an error and nothing is written afterwards; in tolerant
\* mode no such error ends the run; a validation skip (a warning) never ends
\* the run in either mode.
C8_ErrorPolicy ==
    /\ []C8_State
    /\ [][pc = "aborted" => out' = out]_vars
    /\ [][(ignore_error /\ Len(log') > Len(log) /\ log'[Len(log')] = "ERROR")
            => (pc' = "loop" /\ out' = out)]_vars

\* Default mode: the run was aborted by an error after a validation skip that
\* did not end it, and a later entry that would yield a row is left unread
C8_Witness ==
    /\ ~ignore_error
    /\ pc = "aborted"
    /\ "WARN: Skip" \in Range(log)
    /\ \E i \in pos..Len(doc) : IsStart(doc[i], TAG) /\ doc[i].payload = "A"

\* C10: the text written is the header block, once and first, followed by
\* the rows of the emitting entries in document order; the header is there
\* also when no entry yields a row and when the run aborts.
C10_HeaderThenRowsInOrder ==
    /\ pc = "start" => out = <<>>
    /\ pc # "start" =>
          /\ Len(out) >= 1
          /\ out[1] = VCF_HEADER
          /\ Len(row_origin) = Len(out) - 1
    /\ \A i \in 2..Len(out) : out[i].kind = "row"
    /\ \A i \in 1..Len(row_origin) :
          /\ row_origin[i] \in 1..Len(doc)
          /\ IsStart(doc[row_origin[i]], TAG)
          /\ i > 1 => row_origin[i - 1] < row_origin[i]
          /\ i + 1 <= Len(out)
                => <<out[i + 1]>> = output_record(Catalog(doc[row_origin[i]].payload),
                                                  assembly)

\* The run aborted after two different rows were written behind the header
C10_Witness ==
    /\ pc = "aborted"
    /\ Len(out) = 3
    /\ out[2] # out[3]

(***************************************************************************)
(* The entries of a document, read off the document itself                 *)
(***************************************************************************)
\* The number of VariationArchive elements open before event i
EntryLevel(d, i) == CountIn(d, 1, i - 1, IsStart) - CountIn(d, 1, i - 1, IsEnd)

\* The start tags of the outermost VariationArchive elements
EntryStarts(d) == {i \in 1..Len(d) : IsStart(d[i], TAG) /\ EntryLevel(d, i) = 0}

\* Every entry of the document is closed
EntriesClosed(d) ==
    /\ EntryLevel(d, Len(d) + 1) = 0
    /\ \A i \in 1..Len(d) : EntryLevel(d, i + 1) >= 0

\* The end tag of the entry that starts at i
EntryEnd(d, i) ==
    CHOOSE j \in (i + 1)..Len(d) :
        /\ IsEnd(d[j], TAG)
        /\ EntryLevel(d, j + 1) = 0
        /\ \A k \in (i + 1)..(j - 1) : EntryLevel(d, k + 1) > 0

\* The entry at i cannot be extracted or decoded
EntryFails(d, i) ==
    \/ d[i].payload = "D"
    \/ \E k \in i..EntryEnd(d, i) : d[k].kind = "Err"

\* Every tokenizer error of the document lies inside an entry
ErrorsInsideEntries(d) ==
    \A k \in 1..Len(d) : d[k].kind = "Err" => EntryLevel(d, k) > 0

\* The rows of the entries that start at or after i, failed entries left out
RECURSIVE RowsFrom(_, _, _)
RowsFrom(d, i, asm) ==
    IF i > Len(d) THEN <<>>
    ELSE IF i \in EntryStarts(d) /\ ~EntryFails(d, i)
         THEN output_record(Catalog(d[i].payload), asm) \o RowsFrom(d, i + 1, asm)
         ELSE RowsFrom(d, i + 1, asm)

\* C9: in tolerant mode a failed entry writes no row and every other entry of
\* the stream yields exactly the row it yields without the failed entry, also
\* when the failure is in the middle of the failed entry (the original claim).
C9_FailedEntryIsolated ==
    (/\ pc = "done"
     /\ ignore_error
     /\ EntriesClosed(doc)
     /\ ErrorsInsideEntries(doc))
        => SubSeq(out, 2, Len(out)) = RowsFrom(doc, 1, assembly)

\* The same for decode failures alone: a document without tokenizer errors
C9_DecodeFailureIsolated ==
    (/\ pc = "done"
     /\ ignore_error
     /\ EntriesClosed(doc)
     /\ \A k \in 1..Len(doc) : doc[k].kind # "Err")
        => SubSeq(out, 2, Len(out)) = RowsFrom(doc, 1, assembly)

\* The original claim on the runs in which the tokenizer resumed behind every
\* error and delivered the whole document
C9_ResumedRunIsolated ==
    (/\ pc = "done"
     /\ ignore_error
     /\ EntriesClosed(doc)
     /\ ErrorsInsideEntries(doc)
     /\ pos = Len(doc) + 1)
        => SubSeq(out, 2, Len(out)) = RowsFrom(doc, 1, assembly)

(***************************************************************************)
(* Properties of the projection of one entry                               *)
(***************************************************************************)
\* output_record has run on the entry held in variant
Projected == pc = "loop" /\ IsSome(variant)

RowWritten == Len(out) = 2

HasClassified == IsSome(Unwrap(variant).classified_record)
TheRecord == Unwrap(Unwrap(variant).classified_record)
HasAllele == HasClassified /\ IsSome(TheRecord.simple_allele)
TheAllele == Unwrap(TheRecord.simple_allele)
TheLocations == IF IsSome(TheAllele.location) THEN Unwrap(TheAllele.location) ELSE <<>>

\* The locations of the target assembly, by index
Matching == {i \in 1..Len(TheLocations) : TheLocations[i].assembly = assembly}
FirstMatching == TheLocations[CHOOSE i \in Matching : \A j \in Matching : i <= j]

Complete(x) == x.pos # None /\ x.reference # None /\ x.alternate # None

\* The 25 chromosome labels
ChromosomeNames ==
    {<<"1">>, <<"2">>, <<"3">>, <<"4">>, <<"5">>, <<"6">>, <<"7">>, <<"8">>, <<"9">>,
     <<"1","0">>, <<"1","1">>, <<"1","2">>, <<"1","3">>, <<"1","4">>, <<"1","5">>,
     <<"1","6">>, <<"1","7">>, <<"1","8">>, <<"1","9">>, <<"2","0">>, <<"2","1">>,
     <<"2","2">>, <<"X">>, <<"Y">>, <<"M","T">>}

\* The letters of s are A, C, G, T in either case, and there is at least one
AcgtAnyCase(s) ==
    /\ s # <<>>
    /\ Range(s) \subseteq {"A", "C", "G", "T", "a", "c", "g", "t"}

\* u is s with every lower-case letter replaced by its capital
IsUpperCased(u, s) ==
    /\ Len(u) = Len(s)
    /\ \A i \in 1..Len(s) :
          \/ u[i] = s[i] /\ s[i] \notin Range(LowerLetters)
          \/ \E k \in 1..Len(LowerLetters) :
                LowerLetters[k] = s[i] /\ UpperLetters[k] = u[i]

\* r and a are the same string up to the case of their letters
SameUpToCase(r, a) ==
    /\ Len(r) = Len(a)
    /\ \A i \in 1..Len(r) :
          \/ r[i] = a[i]
          \/ \E k \in 1..Len(LowerLetters) :
                {r[i], a[i]} = {LowerLetters[k], UpperLetters[k]}

\* The location passes validation, as the specification states it
Valid(x) ==
    /\ x.chr \in ChromosomeNames
    /\ AcgtAnyCase(Unwrap(x.reference))
    /\ AcgtAnyCase(Unwrap(x.alternate))
    /\ ~SameUpToCase(Unwrap(x.reference), Unwrap(x.alternate))

\* The accession has a MedGen condition reference with an id and a germline
\* classification
Contributes(rcv) ==
    /\ \E c \in Range(rcv.classified_condition) : c.db = Some(DB_MEDGEN) /\ c.id # None
    /\ rcv.germline_classification # None

Contributing == {i \in 1..Len(TheRecord.rcv_list) : Contributes(TheRecord.rcv_list[i])}

\* C2: output_record writes a row only if the entry has a classified form,
\* that form has a SimpleAllele, the allele has a location of the target
\* assembly that passes validation, and the conditions string is not empty;
\* it writes at most one row, and none for an entry with only an included form.
C2_RowOnlyIfAllFour ==
    Projected =>
       /\ Len(out) \in {1, 2}
       /\ out[1] = VCF_HEADER
       /\ RowWritten =>
             /\ out[2].kind = "row"
             /\ HasClassified
             /\ HasAllele
             /\ \E i \in Matching : Complete(TheLocations[i]) /\ Valid(TheLocations[i])
             /\ Contributing # {}
       /\ ~HasClassified => ~RowWritten

\* No row for an entry whose included form has a valid SimpleAllele and that
\* has no classified form
C2_Witness ==
    /\ Projected
    /\ ~HasClassified
    /\ IsSome(Unwrap(variant).included_record)
    /\ IsSome(Unwrap(Unwrap(variant).included_record).simple_allele)
    /\ ~RowWritten

\* C3: with position, reference and alternate present, the location yields
\* coordinates exactly if the chromosome label is one of 1..22, X, Y, MT, the
\* upper-cased alleles consist of A, C, G, T and differ.
C3_ValidationExact ==
    (/\ Projected
     /\ HasAllele
     /\ Matching # {}
     /\ Complete(FirstMatching)
     /\ Contributing # {})
        => (RowWritten <=> Valid(FirstMatching))

\* No row for reference a and alternate A on a valid chromosome
C3_Witness ==
    /\ Projected
    /\ HasAllele
    /\ Matching # {}
    /\ Complete(FirstMatching)
    /\ Contributing # {}
    /\ FirstMatching.chr \in ChromosomeNames
    /\ FirstMatching.reference = Some(<<"a">>)
    /\ FirstMatching.alternate = Some(<<"A">>)
    /\ ~RowWritten

\* C4: only the first location of the target assembly counts: if it lacks
\* position, reference or alternate, or fails validation, there is no row
\* even when a later location of that assembly is complete and valid; without
\* a location of the target assembly there is no row and no error, and the
\* run goes on.
C4_FirstMatchingOnly ==
    (Projected /\ HasAllele) =>
       /\ (Matching # {} /\ ~(Complete(FirstMatching) /\ Valid(FirstMatching)))
             => ~RowWritten
       /\ Matching = {} =>
             /\ ~RowWritten
             /\ log = <<>>
             /\ pc = "loop"

\* No row although the second location of the target assembly is usable
C4_Witness ==
    /\ Projected
    /\ HasAllele
    /\ Contributing # {}
    /\ Cardinality(Matching) = 2
    /\ ~Complete(FirstMatching)
    /\ \E i \in Matching : Complete(TheLocations[i]) /\ Valid(TheLocations[i])
    /\ ~RowWritten

\* The number of segments of a conditions string
Segments(c) == Cardinality({i \in 1..Len(c) : c[i] = "|"}) + 1

\* The record without its somatic and oncogenicity classifications
GermlineOnly(record) ==
    [record EXCEPT !.rcv_list =
        [i \in 1..Len(record.rcv_list) |->
            [record.rcv_list[i] EXCEPT !.somatic_clinical_impact = None,
                                       !.oncogenicity_classification = None]]]

\* The entry reaches condition synthesis
HasCoordinates ==
    /\ HasAllele
    /\ Matching # {}
    /\ Complete(FirstMatching)
    /\ Valid(FirstMatching)

\* C5: an accession contributes a segment exactly if it has a MedGen
\* condition reference with an id and a germline classification; the somatic
\* and oncogenicity classifications never influence the conditions string.
C5_ContributesExactly ==
    (Projected /\ HasCoordinates) =>
       /\ RowWritten <=> Contributing # {}
       /\ RowWritten =>
             /\ Segments(out[2].CONDITIONS) = Cardinality(Contributing)
             /\ <<out[2]>> = output_record(
                    [Unwrap(variant) EXCEPT
                        !.classified_record = Some(GermlineOnly(TheRecord))],
                    assembly)

\* No row for an accession with a MedGen id whose only classification is not
\* the germline one
C5_Witness ==
    /\ Projected
    /\ HasCoordinates
    /\ Len(TheRecord.rcv_list) = 1
    /\ \E c \in Range(TheRecord.rcv_list[1].classified_condition) :
          c.db = Some(DB_MEDGEN) /\ c.id # None
    /\ TheRecord.rcv_list[1].germline_classification = None
    /\ \/ TheRecord.rcv_list[1].somatic_clinical_impact # None
       \/ TheRecord.rcv_list[1].oncogenicity_classification # None
    /\ ~RowWritten

\* The parts, each followed by sep except the last
RECURSIVE Intercalate(_, _, _)
Intercalate(parts, sep, n) ==
    IF n = 0 THEN <<>>
    ELSE IF n = 1 THEN parts[1]
    ELSE Intercalate(parts, sep, n - 1) \o sep \o parts[n]

\* The recognized ids of an accession, in input order
RecognizedIds(rcv) ==
    LET idx == {i \in 1..Len(rcv.classified_condition) :
                   /\ rcv.classified_condition[i].db = Some(DB_MEDGEN)
                   /\ rcv.classified_condition[i].id # None}
        RECURSIVE from(_)
        from(i) == IF i > Len(rcv.classified_condition) THEN <<>>
                   ELSE IF i \in idx
                        THEN <<rcv.classified_condition[i].id[1]>> \o from(i + 1)
                        ELSE from(i + 1)
    IN  from(1)

\* The fragments of a description: split, trimmed, lower-cased, spaces to "_"
Fragments(text) ==
    LET f == split(text)
    IN  [i \in 1..Len(f) |-> replace_space(to_lowercase(trim(f[i])))]

\* MedGen:<ids>:<fragments>:<count>
SegmentOf(rcv) ==
    LET ids == RecognizedIds(rcv)
        fr == Fragments(rcv.germline_classification[1].text)
    IN  Intercalate(<<DB_MEDGEN,
                      Intercalate(ids, <<"/">>, Len(ids)),
                      Intercalate(fr, <<"/">>, Len(fr)),
                      format_int(rcv.germline_classification[1].submission_count)>>,
                    <<":">>, 4)

\* The segments of the contributing accessions, in input order
RECURSIVE SegmentsFrom(_, _)
SegmentsFrom(rcvs, i) ==
    IF i > Len(rcvs) THEN <<>>
    ELSE IF Contributes(rcvs[i])
         THEN <<SegmentOf(rcvs[i])>> \o SegmentsFrom(rcvs, i + 1)
         ELSE SegmentsFrom(rcvs, i + 1)

\* C6: the conditions string is the "|"-join of the contributing accessions'
\* segments in input order, unsorted, with repetitions and without empty
\* segments; a segment is MedGen, the ids joined by "/", the fragments joined
\* by "/" and the submission count, separated by ":".
C6_ConditionsString ==
    (Projected /\ RowWritten) =>
        LET segs == SegmentsFrom(TheRecord.rcv_list, 1)
        IN  out[2].CONDITIONS = Intercalate(segs, <<"|">>, Len(segs))

\* A row for two accessions that contribute, the second before the first in
\* any sorted order, or equal to it
C6_Witness ==
    /\ Projected
    /\ RowWritten
    /\ Len(TheRecord.rcv_list) = 2
    /\ Contributing = {1, 2}
    /\ TheRecord.rcv_list[1].classified_condition[1] = MedGenId(<<"M","2">>)
    /\ TheRecord.rcv_list[2].classified_condition[1] = MedGenId(<<"M","1">>)

\* C7: a row carries the reference and alternate upper-cased, the chromosome,
\* position, variation id and allele id of the entry's allele unchanged, and
\* "." for quality and filter.
C7_RowFields ==
    (Projected /\ RowWritten) =>
       /\ out[2].CHROM = FirstMatching.chr
       /\ out[2].POS = FirstMatching.pos[1]
       /\ out[2].ID = TheAllele.variation_id
       /\ out[2].ALLELEID = TheAllele.allele_id
       /\ IsUpperCased(out[2].REF, FirstMatching.reference[1])
       /\ IsUpperCased(out[2].ALT, FirstMatching.alternate[1])
       /\ out[2].QUAL = "."
       /\ out[2].FILTER = "."

\* A row for lower-case input alleles
C7_Witness ==
    /\ Projected
    /\ RowWritten
    /\ FirstMatching.reference = Some(<<"a">>)
    /\ FirstMatching.alternate = Some(<<"g","t">>)
    /\ out[2].REF = <<"A">>
    /\ out[2].ALT = <<"G","T">>

(***************************************************************************)
(* End-of-stream inside an entry                                           *)
(***************************************************************************)
\* The element that starts at d[i] has no end tag in d
Unclosed(d, i) ==
    /\ IsStart(d[i], TAG)
    /\ \A j \in (i + 1)..Len(d) :
          ~(/\ IsEnd(d[j], TAG)
            /\ CountIn(d, i + 1, j - 1, IsStart) = CountIn(d, i + 1, j - 1, IsEnd))

\* read_record is about to read end-of-stream
EofInsideEntry == pc = "record" /\ NextEvent.kind = "Eof"

\* An unclosed entry is neither decoded nor the origin of a row
C11_State ==
    /\ pc \in {"decode", "output"} => ~Unclosed(doc, pos - Len(output_buf))
    /\ \A k \in 1..Len(row_origin) : ~Unclosed(doc, row_origin[k])

\* C11: at end-of-stream inside an entry read_record returns an error, the
\* truncated entry is never decoded and yields no row; in default mode the
\* run aborts, in tolerant mode the main loop reads end-of-stream next, writes
\* nothing more, flushes and returns success.
C11_TruncatedEntry ==
    /\ []C11_State
    /\ [][EofInsideEntry =>
            /\ log' = Append(log, "ERROR")
            /\ out' = out
            /\ variant' = variant
            /\ row_origin' = row_origin
            /\ exited'
            /\ pc' = IF ignore_error THEN "loop" ELSE "aborted"]_vars
    /\ [][(pc = "loop" /\ exited) =>
            (pc' = "done" /\ out' = out /\ log' = log)]_vars

\* Tolerant mode: the run finished with success after a row was written and
\* the last entry of an input without tokenizer errors was cut off
C11_Witness ==
    /\ ignore_error
    /\ pc = "done"
    /\ \A k \in 1..Len(doc) : doc[k].kind # "Err"
    /\ \E i \in 1..Len(doc) : Unclosed(doc, i) /\ EntryLevel(doc, i) = 0
    /\ Len(log) > 0
    /\ log[Len(log)] = "ERROR"
    /\ Len(out) > 1

(***************************************************************************)
(* Termination of output_vcf                                               *)
(***************************************************************************)
\* output_vcf has returned
Finished == pc \in {"done", "aborted"}

\* Reads the reader can still answer with something other than a repeated
\* end-of-stream: the events left and the first end-of-stream
Remaining == IF exited THEN 0 ELSE Len(doc) + 2 - pos

\* How output_vcf has returned: Ok after end-of-stream, or Err in default mode
C12_State ==
    /\ Finished => ~ENABLED Next
    /\ (~Finished /\ pc # "output") => ENABLED Reading
    /\ pc = "done" => (exited /\ NextEvent.kind = "Eof")
    /\ pc = "aborted" =>
          (~ignore_error /\ Len(log) > 0 /\ log[Len(log)] = "ERROR")

\* C12: for every finite input output_vcf eventually finishes in both modes,
\* by reading end-of-stream and flushing or by aborting with an error; a
\* tokenizer error at the top level in tolerant mode is followed by a read
\* further on in the input, so no failing read is repeated forever.
C12_Terminates ==
    /\ <>Finished
    /\ []C12_State
    /\ [][Remaining' <= Remaining]_vars
    /\ [][(pc \in {"loop", "record"} /\ ~Finished') =>
            Remaining' < Remaining]_vars
    /\ [][(ignore_error /\ pc = "loop" /\ NextEvent.kind = "Err") =>
            (pc' = "loop" /\ (pos' > pos \/ exited'))]_vars

\* Tolerant mode: the run finished by reading end-of-stream after a tokenizer
\* error at the top level was followed by an entry that yielded a row
C12_Witness ==
    /\ ignore_error
    /\ pc = "done"
    /\ pos = Len(doc) + 1
    /\ \E e \in 1..Len(doc) :
          /\ doc[e].kind = "Err"
          /\ EntryLevel(doc, e) = 0
          /\ \E k \in 1..Len(row_origin) : row_origin[k] > e

====
